---- MODULE Spec2Model ----
(***************************************************************************)
(* The asynchronous video-annotation jobs of backend/app/main.py: the job  *)
(* registry _JOBS, one worker thread per job (_annotate_worker), the       *)
(* request handlers annotate_video_async / annotate_progress /             *)
(* annotate_result, the stop event _STOP_EVENT and the shutdown half of    *)
(* lifespan.                                                               *)
(*                                                                         *)
(* Threads.  The request handlers and lifespan are coroutines of one event *)
(* loop: a handler runs without interruption by another handler between    *)
(* two awaits.  The workers are threads and interleave with everything.    *)
(* A worker step of the model holds at most one access to shared state     *)
(* (the registry, the stop event, the worker list, the output file).       *)
(*                                                                         *)
(* Optional values (Python's None) are sets with at most one element: {}   *)
(* is None and {v} is the value v.                                         *)
(*                                                                         *)
(* Beside the jobs (Spec, SpecEnv, SpecFair, SpecShutdown, SpecFailures,   *)
(* SpecSignal with the signal handler, SpecProgress with the polls)        *)
(* the module has the estimator cache of get_estimator (SpecEstimators),   *)
(* the registry lock _JOBS_LOCK statement by statement (SpecLock), and the *)
(* functions of fall.py, pose.py and device.py with the synchronous scan   *)
(* of analyze_video, called with bounded inputs (SpecCalc).  Floats are    *)
(* exact fractions.                                                        *)
(***************************************************************************)
EXTENDS Integers, Sequences, FiniteSets, TLC

\* Bounds of the model.
MaxJobs == 2
MaxFrames == 5

\* main.py:365 -- the worker publishes its count every 5th frame.
BatchSize == 5

JobIds == 1..MaxJobs

\* An id that annotate_video_async never returned stands for any unknown id.
QueryIds == 0..MaxJobs

\* str(e) of an exception caught at the worker boundary.
Failure == "failure"

\* An uploaded video as the container library sees it: whether the container
\* opens, the frame count of its metadata (CAP_PROP_FRAME_COUNT, an estimate
\* that may be missing, 0 or negative, or short of the frames) and the number
\* of frames cap.read() decodes before it answers not ok.
Unopenable == [opens |-> FALSE, count |-> 0, frames |-> 0]

Videos ==
    { Unopenable,
      [opens |-> TRUE, count |-> 0 - 1, frames |-> 0],
      [opens |-> TRUE, count |-> 0, frames |-> MaxFrames],
      [opens |-> TRUE, count |-> MaxFrames - 1, frames |-> MaxFrames] }

VARIABLES
    JOBS,        \* _JOBS: job id -> record
    STOP_EVENT,  \* _STOP_EVENT.is_set()
    WORKERS,     \* _WORKERS: list of the tracked worker threads (by job id)
    files,       \* the output temp files that exist (by job id)
    pc,          \* each worker thread's position in _annotate_worker
    video,       \* each worker's content argument
    processed,   \* each worker's local variable processed
    pending,     \* annotate_video_async calls suspended at await file.read()
    sd,          \* lifespan's position after its yield
    snapshot,    \* lifespan's workers_snapshot
    joined,      \* the threads lifespan has called join on
    resp,        \* the answer of the handler that ran last, if one just ran
    fresh,       \* the job id the client was just handed, until its next request
    atStop,      \* history: where each worker was when lifespan set the event
    sinceStop    \* history: frames each worker processed while the event was set

\* The estimator cache of main.py and the threads inside get_estimator.
VARIABLES
    estimators,  \* _estimators: device kind -> the cached PoseEstimator, if any
    built,       \* history: how many PoseEstimator instances each kind got
    handed,      \* history: the instances get_estimator has returned
    gpc,         \* each thread's position in get_estimator
    gkind,       \* each thread's local variable device_type
    gnew         \* the instance a thread has constructed and not yet stored

\* The call of a function of fall.py, pose.py, device.py or of the synchronous
\* scan of main.py that ran last, with its arguments and what it returned.
VARIABLES calc

\* The registry lock and the threads that take it, step by step.
VARIABLES
    jobsLock,    \* _JOBS_LOCK: the thread that holds it, if any
    lpc,         \* each thread's position relative to the lock
    lprocessed   \* each worker's local variable processed

jobVars == << JOBS, STOP_EVENT, WORKERS, files, pc, video, processed, pending,
              sd, snapshot, joined, resp, fresh, atStop, sinceStop >>

estVars == << estimators, built, handed, gpc, gkind, gnew >>

\* What the job operations leave alone.
lockVars == << jobsLock, lpc, lprocessed >>

others == << estVars, calc, lockVars >>

vars == << jobVars, others >>

NoResp == [op |-> "none"]

\* device.py:13 -- the device kinds get_torch_device can name.
Kinds == {"mps", "cuda", "cpu"}

\* The threads that call get_estimator: the event loop (0), on which the
\* handlers analyze_frame, analyze_video and annotate_video run, and the job
\* workers.
Loop == 0

Threads == {Loop} \cup JobIds

\* No function was called yet.
Idle == [fn |-> "none"]

----------------------------------------------------------------------------
\* The registry operations.  Each holds _JOBS_LOCK for its whole body.

\* A record that starts as queued rather than running.
StartJobStateQueued(total) ==
    [status |-> "queued", processed |-> 0, total |-> total,
     error |-> {}, out_path |-> {}]

\* _start_job_state: the record of a new job.
StartJobState(total) ==
    [status |-> "running", processed |-> 0, total |-> total,
     error |-> {}, out_path |-> {}]

\* An update that writes to the job created last, whatever id it is given.
UpdateJobLatest(J, id, n, total) ==
    IF J # << >>
    THEN [J EXCEPT ![Len(J)].processed = n,
                   ![Len(J)].total = IF total # {} THEN total ELSE @]
    ELSE J

\* _update_job(job_id, processed, total=None)
UpdateJob(J, id, n, total) ==
    IF id \in DOMAIN J
    THEN [J EXCEPT ![id].processed = n,
                   ![id].total = IF total # {} THEN total ELSE @]
    ELSE J

\* A finish that sets the status and forgets the output location.
FinishJobStatusOnly(J, id, out) ==
    IF id \in DOMAIN J
    THEN [J EXCEPT ![id].status = "done"]
    ELSE J

\* _finish_job(job_id, out_path)
FinishJob(J, id, out) ==
    IF id \in DOMAIN J
    THEN [J EXCEPT ![id].status = "done", ![id].out_path = {out}]
    ELSE J

\* An error that drops the record of the job created last instead of keeping
\* it.
ErrorJobEvicts(J, id, msg) ==
    IF id \in DOMAIN J
    THEN IF id = Len(J) THEN SubSeq(J, 1, Len(J) - 1)
         ELSE [J EXCEPT ![id].status = "error", ![id].error = {msg}]
    ELSE J

\* _error_job(job_id, message)
ErrorJob(J, id, msg) ==
    IF id \in DOMAIN J
    THEN [J EXCEPT ![id].status = "error", ![id].error = {msg}]
    ELSE J

----------------------------------------------------------------------------
Init ==
    /\ JOBS = << >>
    /\ STOP_EVENT = FALSE
    /\ WORKERS = << >>
    /\ files = {}
    /\ pc = [j \in JobIds |-> "none"]
    /\ video = [j \in JobIds |-> Unopenable]
    /\ processed = [j \in JobIds |-> 0]
    /\ pending = 0
    /\ sd = "serving"
    /\ snapshot = << >>
    /\ joined = {}
    /\ resp = NoResp
    /\ fresh = {}
    /\ atStop = [j \in JobIds |-> "none"]
    /\ sinceStop = [j \in JobIds |-> 0]
    /\ estimators = [k \in Kinds |-> {}]
    /\ built = [k \in Kinds |-> 0]
    /\ handed = {}
    /\ gpc = [t \in Threads |-> "idle"]
    /\ gkind = [t \in Threads |-> "cpu"]
    /\ gnew = [t \in Threads |-> {}]
    /\ calc = Idle
    /\ jobsLock = {}
    /\ lpc = [t \in Threads |-> IF t = Loop THEN "idle" ELSE "none"]
    /\ lprocessed = [j \in JobIds |-> 0]

----------------------------------------------------------------------------
\* _annotate_worker, one thread per job.  A step of a worker is not a request:
\* it leaves the handlers' variables alone and clears the last answer.

ThreadStep ==
    /\ resp' = NoResp
    /\ UNCHANGED << video, pending, sd, snapshot, joined, fresh, atStop,
                    others >>

\* line 330: estimator = get_estimator(preferred_device)
WorkerGetEstimator(j) ==
    /\ pc[j] = "estimator"
    /\ pc' = [pc EXCEPT ![j] = "open"]
    /\ UNCHANGED << JOBS, STOP_EVENT, WORKERS, files, processed, sinceStop >>
    /\ ThreadStep

\* The total the worker publishes: the metadata count if positive, else None.
WorkerTotal(v) == IF v.count > 0 THEN {v.count} ELSE {}

\* lines 331-345: write the upload to a temp file and open it; a container
\* that does not open ends the job, else the total is published.
WorkerOpen(j) ==
    /\ pc[j] = "open"
    /\ IF ~video[j].opens
       THEN /\ JOBS' = ErrorJob(JOBS, j, "Failed to read video")
            /\ pc' = [pc EXCEPT ![j] = "unregister"]
       ELSE /\ JOBS' = UpdateJob(JOBS, j, 0, WorkerTotal(video[j]))
            /\ pc' = [pc EXCEPT ![j] = "writer"]
    /\ UNCHANGED << STOP_EVENT, WORKERS, files, processed, sinceStop >>
    /\ ThreadStep

\* lines 347-354: create the output temp file and the writer; processed = 0.
WorkerCreateWriter(j) ==
    /\ pc[j] = "writer"
    /\ files' = files \cup {j}
    /\ processed' = [processed EXCEPT ![j] = 0]
    /\ pc' = [pc EXCEPT ![j] = "loop"]
    /\ UNCHANGED << JOBS, STOP_EVENT, WORKERS, sinceStop >>
    /\ ThreadStep

\* A loop that does not look at the stop event: while True
WorkerLoopCheckBlind(j) ==
    /\ pc[j] = "loop"
    /\ pc' = [pc EXCEPT ![j] = "frame"]
    /\ UNCHANGED << JOBS, STOP_EVENT, WORKERS, files, processed, sinceStop >>
    /\ ThreadStep

\* line 355: while not _STOP_EVENT.is_set()
WorkerLoopCheck(j) ==
    /\ pc[j] = "loop"
    /\ pc' = [pc EXCEPT ![j] = IF STOP_EVENT THEN "release" ELSE "frame"]
    /\ UNCHANGED << JOBS, STOP_EVENT, WORKERS, files, processed, sinceStop >>
    /\ ThreadStep

\* lines 356-366: decode the next frame (not ok: leave the loop), estimate,
\* draw, write it, count it, and publish the count on every BatchSize-th frame.
WorkerFrame(j) ==
    /\ pc[j] = "frame"
    /\ IF processed[j] >= video[j].frames
       THEN /\ pc' = [pc EXCEPT ![j] = "release"]
            /\ UNCHANGED << JOBS, processed, sinceStop >>
       ELSE /\ processed' = [processed EXCEPT ![j] = @ + 1]
            /\ JOBS' = IF processed'[j] % BatchSize = 0
                       THEN UpdateJob(JOBS, j, processed'[j], {})
                       ELSE JOBS
            /\ sinceStop' = [sinceStop EXCEPT
                               ![j] = IF STOP_EVENT THEN @ + 1 ELSE @]
            /\ pc' = [pc EXCEPT ![j] = "loop"]
    /\ UNCHANGED << STOP_EVENT, WORKERS, files >>
    /\ ThreadStep

\* lines 367-369: release the capture and the writer; if _STOP_EVENT.is_set()
\* (the branch taken at a set event never reads processed again)
WorkerRelease(j) ==
    /\ pc[j] = "release"
    /\ pc' = [pc EXCEPT ![j] = IF STOP_EVENT THEN "stopping" ELSE "final"]
    /\ processed' = [processed EXCEPT ![j] = IF STOP_EVENT THEN 0 ELSE @]
    /\ UNCHANGED << JOBS, STOP_EVENT, WORKERS, files, sinceStop >>
    /\ ThreadStep

\* A worker that leaves the job running when it stops.
WorkerStopErrorForgotten(j) ==
    /\ pc[j] = "stopping"
    /\ pc' = [pc EXCEPT ![j] = "remove"]
    /\ UNCHANGED << JOBS, STOP_EVENT, WORKERS, files, processed, sinceStop >>
    /\ ThreadStep

\* line 371: _error_job(job_id, "Server stopping")
WorkerStopError(j) ==
    /\ pc[j] = "stopping"
    /\ JOBS' = ErrorJob(JOBS, j, "Server stopping")
    /\ pc' = [pc EXCEPT ![j] = "remove"]
    /\ UNCHANGED << STOP_EVENT, WORKERS, files, processed, sinceStop >>
    /\ ThreadStep

\* A worker whose stop branch lacks its return and falls through to line 378.
WorkerRemoveOutputNoReturn(j) ==
    /\ pc[j] = "remove"
    /\ files' = files \ {j}
    /\ pc' = [pc EXCEPT ![j] = "final"]
    /\ UNCHANGED << JOBS, STOP_EVENT, WORKERS, processed, sinceStop >>
    /\ ThreadStep

\* lines 372-377: remove the partial output if it exists; return
WorkerRemoveOutput(j) ==
    /\ pc[j] = "remove"
    /\ files' = files \ {j}
    /\ pc' = [pc EXCEPT ![j] = "unregister"]
    /\ UNCHANGED << JOBS, STOP_EVENT, WORKERS, processed, sinceStop >>
    /\ ThreadStep

\* A final update that publishes the frames since the last batch only.
WorkerFinalUpdateRemainder(j) ==
    /\ pc[j] = "final"
    /\ JOBS' = UpdateJob(JOBS, j, processed[j] % BatchSize, {})
    /\ processed' = [processed EXCEPT ![j] = 0]
    /\ pc' = [pc EXCEPT ![j] = "finish"]
    /\ UNCHANGED << STOP_EVENT, WORKERS, files, sinceStop >>
    /\ ThreadStep

\* A worker that goes from the loop to _finish_job without the last update.
WorkerFinalUpdateSkipped(j) ==
    /\ pc[j] = "final"
    /\ processed' = [processed EXCEPT ![j] = 0]
    /\ pc' = [pc EXCEPT ![j] = "finish"]
    /\ UNCHANGED << JOBS, STOP_EVENT, WORKERS, files, sinceStop >>
    /\ ThreadStep

\* line 378: _update_job(job_id, processed=processed), the last use of the
\* local processed
WorkerFinalUpdate(j) ==
    /\ pc[j] = "final"
    /\ JOBS' = UpdateJob(JOBS, j, processed[j], {})
    /\ processed' = [processed EXCEPT ![j] = 0]
    /\ pc' = [pc EXCEPT ![j] = "finish"]
    /\ UNCHANGED << STOP_EVENT, WORKERS, files, sinceStop >>
    /\ ThreadStep

\* line 379: _finish_job(job_id, out_path)
WorkerFinish(j) ==
    /\ pc[j] = "finish"
    /\ JOBS' = FinishJob(JOBS, j, j)
    /\ pc' = [pc EXCEPT ![j] = "unregister"]
    /\ UNCHANGED << STOP_EVENT, WORKERS, files, processed, sinceStop >>
    /\ ThreadStep

\* The places of the try block where a call can raise: constructing the
\* estimator, writing the input temp file, creating the output temp file, and
\* the work on a decoded frame.  The local processed is not read again.
CanRaise(j) ==
    \/ pc[j] \in {"estimator", "open", "writer"}
    \/ pc[j] = "frame" /\ processed[j] < video[j].frames

\* lines 380-382: except Exception as e: _error_job(job_id, str(e))
WorkerFail(j) ==
    /\ CanRaise(j)
    /\ JOBS' = ErrorJob(JOBS, j, Failure)
    /\ processed' = [processed EXCEPT ![j] = 0]
    /\ pc' = [pc EXCEPT ![j] = "unregister"]
    /\ UNCHANGED << STOP_EVENT, WORKERS, files, sinceStop >>
    /\ ThreadStep

\* _WORKERS.remove(me): the list without the first occurrence of t.
Remove(list, t) ==
    IF \E i \in 1..Len(list) : list[i] = t
    THEN LET i == CHOOSE k \in 1..Len(list) :
                      list[k] = t /\ \A m \in 1..(k - 1) : list[m] # t
         IN  SubSeq(list, 1, i - 1) \o SubSeq(list, i + 1, Len(list))
    ELSE list

\* A finally block that also removes the worker's output temp file.
WorkerUnregisterCleansUp(j) ==
    /\ pc[j] = "unregister"
    /\ WORKERS' = Remove(WORKERS, j)
    /\ files' = files \ {j}
    /\ pc' = [pc EXCEPT ![j] = "returning"]
    /\ UNCHANGED << JOBS, STOP_EVENT, processed, sinceStop >>
    /\ ThreadStep

\* lines 383-384 and 85-91: finally: _unregister_current_worker()
WorkerUnregister(j) ==
    /\ pc[j] = "unregister"
    /\ WORKERS' = Remove(WORKERS, j)
    /\ pc' = [pc EXCEPT ![j] = "returning"]
    /\ UNCHANGED << JOBS, STOP_EVENT, files, processed, sinceStop >>
    /\ ThreadStep

\* The thread function returns and the thread ends.
WorkerExit(j) ==
    /\ pc[j] = "returning"
    /\ pc' = [pc EXCEPT ![j] = "exited"]
    /\ UNCHANGED << JOBS, STOP_EVENT, WORKERS, files, processed, sinceStop >>
    /\ ThreadStep

AnnotateWorker(j) ==
    \/ WorkerGetEstimator(j)
    \/ WorkerOpen(j)
    \/ WorkerCreateWriter(j)
    \/ WorkerLoopCheck(j)
    \/ WorkerFrame(j)
    \/ WorkerRelease(j)
    \/ WorkerStopError(j)
    \/ WorkerRemoveOutput(j)
    \/ WorkerFinalUpdate(j)
    \/ WorkerFinish(j)
    \/ WorkerFail(j)
    \/ WorkerUnregister(j)
    \/ WorkerExit(j)

----------------------------------------------------------------------------
\* The request handlers.  They run on the event loop, which the shutdown half
\* of lifespan occupies from its first statement to its last (it never awaits).
LoopFree == sd \in {"serving", "done"}

HandlerStep == UNCHANGED << STOP_EVENT, files, sd, snapshot, joined,
                            atStop, sinceStop,
                    others >>

\* annotate_video_async, lines 389-391: the stop event is set: 503
AnnotateVideoAsyncRefuse ==
    /\ LoopFree
    /\ STOP_EVENT
    /\ resp' = [op |-> "submit", id |-> 0, code |-> 503]
    /\ fresh' = {}
    /\ UNCHANGED << JOBS, WORKERS, pc, video, processed, pending >>
    /\ HandlerStep

\* annotate_video_async, lines 389-393: the stop event is not set; the
\* handler suspends at content = await file.read()
AnnotateVideoAsyncBegin ==
    /\ LoopFree
    /\ ~STOP_EVENT
    /\ Len(JOBS) + pending < MaxJobs
    /\ pending' = pending + 1
    /\ resp' = NoResp
    /\ fresh' = {}
    /\ UNCHANGED << JOBS, WORKERS, pc, video, processed >>
    /\ HandlerStep

\* lines 396-407: the probed total: the metadata count of a container that
\* opens, else None.
ProbeTotal(v) == IF v.opens THEN {v.count} ELSE {}

\* uuid.uuid4().hex: an id no job has.
NewJobId == Len(JOBS) + 1

\* annotate_video_async, lines 394-413, resumed with the upload v: probe the
\* total, register the job (_start_job_state), create the thread, track it
\* (_register_worker), start it and answer the job id.
AnnotateVideoAsyncRegister(v) ==
    /\ LoopFree
    /\ pending > 0
    /\ pending' = pending - 1
    /\ LET job_id == NewJobId
       IN  /\ JOBS' = Append(JOBS, StartJobState(ProbeTotal(v)))
           /\ WORKERS' = Append(WORKERS, job_id)
           /\ pc' = [pc EXCEPT ![job_id] = "estimator"]
           /\ video' = [video EXCEPT ![job_id] = v]
           /\ resp' = [op |-> "submit", id |-> job_id, code |-> 200]
           /\ fresh' = {job_id}
    /\ UNCHANGED processed
    /\ HandlerStep

\* annotate_progress, lines 426-428: the percentage, an exact fraction
\* << numerator, denominator >>, or None.
Min(a, b) == IF a <= b THEN a ELSE b
Max(a, b) == IF a >= b THEN a ELSE b

Percent(n, total) ==
    IF total # {} /\ (\A t \in total : t > 0)
    THEN LET t == CHOOSE x \in total : TRUE
         IN  { << Min(100 * t, Max(0, 100 * n)), t >> }
    ELSE {}

\* annotate_progress(job_id), lines 416-429.  first: the client asks about
\* the job id it was just handed.
AnnotateProgress(id) ==
    /\ LoopFree
    /\ resp' = IF id \notin DOMAIN JOBS
               THEN [op |-> "poll", id |-> id, code |-> 404,
                     first |-> (id \in fresh)]
               ELSE [op |-> "poll", id |-> id, code |-> 200,
                     status |-> JOBS[id].status,
                     processed |-> JOBS[id].processed,
                     total |-> JOBS[id].total,
                     percent |-> Percent(JOBS[id].processed, JOBS[id].total),
                     error |-> JOBS[id].error,
                     first |-> (id \in fresh)]
    /\ fresh' = {}
    /\ UNCHANGED << JOBS, WORKERS, pc, video, processed, pending >>
    /\ HandlerStep

\* A result handler that does not look for the file.
AnnotateResultUnchecked(id) ==
    /\ LoopFree
    /\ resp' = IF id \notin DOMAIN JOBS
               THEN [op |-> "fetch", id |-> id, code |-> 404]
               ELSE IF JOBS[id].status # "done"
               THEN [op |-> "fetch", id |-> id, code |-> 409]
               ELSE [op |-> "fetch", id |-> id, code |-> 200,
                     file |-> JOBS[id].out_path,
                     again |-> (resp.op = "fetch" /\ resp.id = id
                                /\ resp.code = 200)]
    /\ fresh' = {}
    /\ UNCHANGED << JOBS, WORKERS, pc, video, processed, pending >>
    /\ HandlerStep

\* annotate_result(job_id), lines 432-445.  again: the answer before this
\* one was this job's result too.
AnnotateResult(id) ==
    /\ LoopFree
    /\ resp' = IF id \notin DOMAIN JOBS
               THEN [op |-> "fetch", id |-> id, code |-> 404]
               ELSE IF JOBS[id].status # "done"
               THEN [op |-> "fetch", id |-> id, code |-> 409]
               ELSE IF JOBS[id].out_path = {}
                       \/ ~(JOBS[id].out_path \subseteq files)
               THEN [op |-> "fetch", id |-> id, code |-> 410]
               ELSE [op |-> "fetch", id |-> id, code |-> 200,
                     file |-> JOBS[id].out_path,
                     again |-> (resp.op = "fetch" /\ resp.id = id
                                /\ resp.code = 200)]
    /\ fresh' = {}
    /\ UNCHANGED << JOBS, WORKERS, pc, video, processed, pending >>
    /\ HandlerStep

----------------------------------------------------------------------------
\* lifespan after its yield: the process shuts down.

\* The workers that still have a frame to decode.
FramesLeft(j) ==
    /\ pc[j] \in {"estimator", "open", "writer", "loop", "frame"}
    /\ video[j].opens
    /\ (IF pc[j] \in {"loop", "frame"} THEN processed[j] ELSE 0) < video[j].frames

\* A worker at the moment the event is set: no live thread, a tracked thread
\* with frames left, another tracked thread, or a live thread that has
\* already taken itself off _WORKERS.
AtStop(j) ==
    IF FramesLeft(j) THEN "left"
    ELSE IF pc[j] \in {"none", "exited"} THEN "none"
    ELSE IF pc[j] = "returning" THEN "untracked"
    ELSE "tracked"

\* line 38: _STOP_EVENT.set()
LifespanSetStop ==
    /\ sd = "serving"
    /\ STOP_EVENT' = TRUE
    /\ sd' = "snapshot"
    /\ atStop' = [j \in JobIds |-> AtStop(j)]
    /\ resp' = NoResp
    /\ fresh' = {}
    /\ UNCHANGED << JOBS, WORKERS, files, pc, video, processed, pending,
                    snapshot, joined, sinceStop,
                    others >>

\* lines 40-41: workers_snapshot = list(_WORKERS)
LifespanSnapshot ==
    /\ sd = "snapshot"
    /\ snapshot' = WORKERS
    /\ sd' = IF WORKERS = << >> THEN "done" ELSE "joining"
    /\ resp' = NoResp
    /\ UNCHANGED << JOBS, STOP_EVENT, WORKERS, files, pc, video, processed,
                    pending, joined, fresh, atStop, sinceStop,
                    others >>

\* A join without a timeout: t.join()
LifespanJoinNoTimeout ==
    /\ sd = "joining"
    /\ LET t == snapshot[Cardinality(joined) + 1]
       IN  /\ pc[t] = "exited"
           /\ joined' = joined \cup {t}
    /\ sd' = IF Cardinality(joined') = Len(snapshot) THEN "done" ELSE "joining"
    /\ resp' = NoResp
    /\ UNCHANGED << JOBS, STOP_EVENT, WORKERS, files, pc, video, processed,
                    pending, snapshot, fresh, atStop, sinceStop,
                    others >>

\* A shutdown that clears the event once the workers are joined.
LifespanJoinClears ==
    /\ sd = "joining"
    /\ LET t == snapshot[Cardinality(joined) + 1]
       IN  joined' = joined \cup {t}
    /\ sd' = IF Cardinality(joined') = Len(snapshot) THEN "done" ELSE "joining"
    /\ STOP_EVENT' = (sd' # "done")
    /\ resp' = NoResp
    /\ UNCHANGED << JOBS, WORKERS, files, pc, video, processed,
                    pending, snapshot, fresh, atStop, sinceStop,
                    others >>

\* lines 42-47: t.join(timeout=5.0) on the next thread of the snapshot: the
\* call returns when the thread has ended or when the timeout has passed,
\* whichever is first; after the last one lifespan returns.
LifespanJoin ==
    /\ sd = "joining"
    /\ LET t == snapshot[Cardinality(joined) + 1]
       IN  joined' = joined \cup {t}
    /\ sd' = IF Cardinality(joined') = Len(snapshot) THEN "done" ELSE "joining"
    /\ resp' = NoResp
    /\ UNCHANGED << JOBS, STOP_EVENT, WORKERS, files, pc, video, processed,
                    pending, snapshot, fresh, atStop, sinceStop,
                    others >>

Lifespan == LifespanSetStop \/ LifespanSnapshot \/ LifespanJoin

----------------------------------------------------------------------------
\* The host reclaims the output temp file of a finished job (a tmp cleaner).
\* Reclaiming it earlier shows the same at every query: no result before done.
EnvReclaim(j) ==
    /\ j \in files
    /\ j \in DOMAIN JOBS /\ JOBS[j].status = "done"
    /\ files' = files \ {j}
    /\ resp' = NoResp
    /\ UNCHANGED << JOBS, STOP_EVENT, WORKERS, pc, video, processed, pending,
                    sd, snapshot, joined, fresh, atStop, sinceStop,
                    others >>

Next ==
    \/ \E j \in JobIds : AnnotateWorker(j)
    \/ AnnotateVideoAsyncRefuse
    \/ AnnotateVideoAsyncBegin
    \/ \E v \in Videos : AnnotateVideoAsyncRegister(v)
    \/ \E id \in QueryIds : AnnotateProgress(id)
    \/ \E id \in QueryIds : AnnotateResult(id)
    \/ Lifespan

\* The program alone.
Spec == Init /\ [][Next]_vars

\* The program on a host that reclaims temp files.
NextEnv == Next \/ \E j \in JobIds : EnvReclaim(j)

SpecEnv == Init /\ [][NextEnv]_vars

\* The jobs without the clients' queries (which change no job, worker or
\* file), with every started worker thread scheduled again and again.
NextJobs ==
    \/ \E j \in JobIds : AnnotateWorker(j)
    \/ AnnotateVideoAsyncBegin
    \/ \E v \in Videos : AnnotateVideoAsyncRegister(v)
    \/ Lifespan

SpecFair ==
    Init /\ [][NextJobs]_vars /\ \A j \in JobIds : WF_vars(AnnotateWorker(j))

\* The same jobs where only the shutdown, once begun, is sure to go on: the
\* worker threads may stall for ever.
SpecShutdown == Init /\ [][NextJobs]_vars /\ WF_vars(Lifespan)

----------------------------------------------------------------------------
\* _set_stop_event (main.py 59-72), which lifespan installs for SIGINT and
\* SIGTERM (lines 29-31).  Python runs a signal handler on the main thread,
\* between two instructions of whatever runs there: the event loop with its
\* handlers, or lifespan's shutdown code.  Line 63, sys.exit(0), raises
\* SystemExit, which is not an Exception: the except clause of line 64 does not
\* catch it, line 72 is not reached, and the exception unwinds the main
\* thread, so no handler and no statement of lifespan runs afterwards.  The
\* worker threads are not daemons (line 410) and run on.
SetStopEvent ==
    /\ sd \in {"serving", "snapshot", "joining"}
    /\ sd' = "interrupted"
    /\ resp' = NoResp
    /\ fresh' = {}
    /\ UNCHANGED << JOBS, STOP_EVENT, WORKERS, files, pc, video, processed,
                    pending, snapshot, joined, atStop, sinceStop,
                    others >>

NextSignal == NextJobs \/ SetStopEvent

\* The jobs in a process that can be sent SIGINT or SIGTERM.
SpecSignal == Init /\ [][NextSignal]_vars

----------------------------------------------------------------------------
\* Uploads that fail inside the worker.  cap.read() (line 356) reports a frame
\* it cannot decode the way it reports the end of the stream: ok is False and
\* no exception is raised.  A damaged video holds MaxFrames frames, as its
\* metadata says, and its stream is broken after the first.
DamagedVideos == { [opens |-> TRUE, count |-> MaxFrames, frames |-> 1] }

FailingVideos == DamagedVideos \cup {Unopenable}

NextFailures ==
    \/ \E j \in JobIds : AnnotateWorker(j)
    \/ AnnotateVideoAsyncBegin
    \/ \E v \in FailingVideos : AnnotateVideoAsyncRegister(v)
    \/ Lifespan

\* The jobs of uploads that fail.
SpecFailures == Init /\ [][NextFailures]_vars

----------------------------------------------------------------------------
\* Videos whose number of frames is not a multiple of BatchSize: one shorter
\* than a batch and one that ends two frames after its first batch.
OddVideos ==
    { [opens |-> TRUE, count |-> 0, frames |-> MaxFrames - 2],
      [opens |-> TRUE, count |-> MaxFrames + 2, frames |-> MaxFrames + 2] }

NextProgress ==
    \/ \E j \in JobIds : AnnotateWorker(j)
    \/ AnnotateVideoAsyncBegin
    \/ \E v \in OddVideos : AnnotateVideoAsyncRegister(v)
    \/ \E id \in JobIds : AnnotateProgress(id)
    \/ Lifespan

\* The jobs of such videos and the polls of their progress.
SpecProgress == Init /\ [][NextProgress]_vars

----------------------------------------------------------------------------
\* device.py: the choice of the torch device.

\* The values of the preferred argument: None, the three kinds, a kind in
\* another case and with blanks around it, the empty string, unknown names.
Preferences ==
    { {}, {"mps"}, {"cuda"}, {"cpu"}, {" CUDA "}, {"Mps"}, {""}, {"gpu"},
      {"auto"} }

\* str.strip().lower() on the strings of Preferences.
StripLower(str) ==
    CASE str = " CUDA " -> "cuda"
      [] str = "Mps" -> "mps"
      [] OTHER -> str

\* A selection that looks for an accelerator in the order cuda, mps.
GetTorchDeviceCudaFirst(preferred, mpsAvailable, mpsBuilt, cudaAvailable) ==
    LET preferred_normalized ==
            IF preferred = {} THEN ""
            ELSE StripLower(CHOOSE str \in preferred : TRUE)
    IN  IF preferred_normalized \in Kinds THEN preferred_normalized
        ELSE IF cudaAvailable THEN "cuda"
        ELSE IF mpsAvailable /\ mpsBuilt THEN "mps"
        ELSE "cpu"

\* get_torch_device(preferred), its device_type; the three flags are the
\* answers of torch.backends.mps.is_available(), torch.backends.mps.is_built()
\* and torch.cuda.is_available().
GetTorchDevice(preferred, mpsAvailable, mpsBuilt, cudaAvailable) ==
    LET preferred_normalized ==
            IF preferred = {} THEN ""
            ELSE StripLower(CHOOSE str \in preferred : TRUE)
    IN  IF preferred_normalized \in Kinds THEN preferred_normalized
        ELSE IF mpsAvailable /\ mpsBuilt THEN "mps"
        ELSE IF cudaAvailable THEN "cuda"
        ELSE "cpu"

----------------------------------------------------------------------------
\* Python floats are exact fractions << numerator, denominator >> in lowest
\* terms with a positive denominator.
RECURSIVE Gcd(_, _)
Gcd(a, b) == IF b = 0 THEN a ELSE Gcd(b, a % b)

Abs(a) == IF a < 0 THEN 0 - a ELSE a

Frac(n, d) ==
    LET g == Gcd(Abs(n), Abs(d))
        sign == IF d < 0 THEN 0 - 1 ELSE 1
    IN  << sign * (n \div g), sign * (d \div g) >>

Zero == Frac(0, 1)
Half == Frac(1, 2)
One == Frac(1, 1)

RAdd(a, b) == Frac(a[1] * b[2] + b[1] * a[2], a[2] * b[2])
RSub(a, b) == Frac(a[1] * b[2] - b[1] * a[2], a[2] * b[2])
RMul(a, b) == Frac(a[1] * b[1], a[2] * b[2])
RDiv(a, b) == Frac(a[1] * b[2], a[2] * b[1])
RLess(a, b) == a[1] * b[2] < b[1] * a[2]
RLeq(a, b) == a[1] * b[2] <= b[1] * a[2]

\* Python's max(a, b) and min(a, b): b only when it is strictly beyond a.
RMax(a, b) == IF RLess(a, b) THEN b ELSE a
RMin(a, b) == IF RLess(b, a) THEN b ELSE a

----------------------------------------------------------------------------
\* schemas.py and fall.py: poses and the fall score.

\* A Keypoint: x, y in pixels, score, name (None is {}).
Kp(name, x, y) == [name |-> {name}, x |-> Frac(x, 1), y |-> Frac(y, 1), score |-> One]

\* math.degrees(math.atan2(dx, dy)) for the directions whose angle is a whole
\* number of degrees: along the axes and the diagonals.  atan2(0, 0) is 0.
Atan2Deg(dx, dy) ==
    LET sx == IF dx[1] > 0 THEN 1 ELSE IF dx[1] < 0 THEN 0 - 1 ELSE 0
        sy == IF dy[1] > 0 THEN 1 ELSE IF dy[1] < 0 THEN 0 - 1 ELSE 0
        diagonal == Abs(dx[1]) * dy[2] = Abs(dy[1]) * dx[2]
    IN  CASE sx = 0 /\ sy >= 0 -> Frac(0, 1)
          [] sx = 0 /\ sy < 0 -> Frac(180, 1)
          [] sy = 0 -> Frac(sx * 90, 1)
          [] diagonal /\ sy > 0 -> Frac(sx * 45, 1)
          [] diagonal /\ sy < 0 -> Frac(sx * 135, 1)

\* FallDetector._get_point: the first keypoint of that name, or None.
GetPoint(person, name) ==
    LET hits == { i \in 1..Len(person.keypoints) :
                     person.keypoints[i].name = {name} }
    IN  IF hits = {} THEN {}
        ELSE { person.keypoints[CHOOSE i \in hits : \A k \in hits : i <= k] }

\* FallDetector._center
Center(a, b) ==
    << RDiv(RAdd(a.x, b.x), Frac(2, 1)), RDiv(RAdd(a.y, b.y), Frac(2, 1)) >>

\* FallDetector._torso_angle_deg: the angle, or None.
TorsoAngleDeg(person) ==
    LET left_shoulder == GetPoint(person, "left_shoulder")
        right_shoulder == GetPoint(person, "right_shoulder")
        left_hip == GetPoint(person, "left_hip")
        right_hip == GetPoint(person, "right_hip")
    IN  IF {} \in {left_shoulder, right_shoulder, left_hip, right_hip}
        THEN {}
        ELSE LET only(S) == CHOOSE e \in S : TRUE
                 s == Center(only(left_shoulder), only(right_shoulder))
                 h == Center(only(left_hip), only(right_hip))
                 dx == RSub(s[1], h[1])
                 dy == RSub(s[2], h[2])
                 angle == Atan2Deg(dx, dy)
             IN  { Frac(Abs(angle[1]), angle[2]) }

\* FallDetector._aspect_ratio: w / h with both floored at 1, or None when the
\* box is None or empty.
AspectRatio(person) ==
    IF person.bbox = {} \/ person.bbox = { << >> } THEN {}
    ELSE LET box == CHOOSE b \in person.bbox : TRUE
             w == RMax(One, RSub(box[3], box[1]))
             h == RMax(One, RSub(box[4], box[2]))
         IN  { RDiv(w, h) }

\* The score multiplied by the detection confidence as it is.
ScorePersonUnfloored(person) ==
    LET angle == TorsoAngleDeg(person)
        ar == AspectRatio(person)
        score0 == Zero
        score1 ==
            IF angle # {}
            THEN LET a == CHOOSE e \in angle : TRUE
                     score_angle ==
                         RMin(One, RMax(Zero,
                             RDiv(RSub(a, Frac(20, 1)),
                                  RSub(Frac(90, 1), Frac(20, 1)))))
                 IN  RMax(score0, score_angle)
            ELSE score0
        score2 ==
            IF ar # {}
            THEN LET r == CHOOSE e \in ar : TRUE
                     score_ar ==
                         RMin(One, RMax(Zero,
                             RDiv(RSub(r, Frac(8, 10)),
                                  RSub(Frac(2, 1), Frac(8, 10)))))
                 IN  RMax(score1, score_ar)
            ELSE score1
    IN  RMul(score2, person.score)

\* FallDetector.score_person
ScorePerson(person) ==
    LET angle == TorsoAngleDeg(person)
        ar == AspectRatio(person)
        score0 == Zero
        score1 ==
            IF angle # {}
            THEN LET a == CHOOSE e \in angle : TRUE
                     score_angle ==
                         RMin(One, RMax(Zero,
                             RDiv(RSub(a, Frac(20, 1)),
                                  RSub(Frac(90, 1), Frac(20, 1)))))
                 IN  RMax(score0, score_angle)
            ELSE score0
        score2 ==
            IF ar # {}
            THEN LET r == CHOOSE e \in ar : TRUE
                     score_ar ==
                         RMin(One, RMax(Zero,
                             RDiv(RSub(r, Frac(8, 10)),
                                  RSub(Frac(2, 1), Frac(8, 10)))))
                 IN  RMax(score1, score_ar)
            ELSE score1
    IN  RMul(score2, RMax(Half, RMin(One, person.score)))

\* Python's max(scores) of a non-empty list.
RECURSIVE MaxOf(_)
MaxOf(scores) ==
    IF Len(scores) = 1 THEN scores[1]
    ELSE RMax(scores[1], MaxOf(Tail(scores)))

\* A verdict that needs the score to be above 0.6.
PredictStrict(people) ==
    IF people = << >> THEN [is_fall |-> FALSE, fall_score |-> Zero]
    ELSE LET scores == [i \in 1..Len(people) |-> ScorePerson(people[i])]
             fall_score == MaxOf(scores)
         IN  [is_fall |-> RLess(Frac(6, 10), fall_score),
              fall_score |-> fall_score]

\* FallDetector.predict
Predict(people) ==
    IF people = << >> THEN [is_fall |-> FALSE, fall_score |-> Zero]
    ELSE LET scores == [i \in 1..Len(people) |-> ScorePerson(people[i])]
             fall_score == MaxOf(scores)
         IN  [is_fall |-> RLeq(Frac(6, 10), fall_score),
              fall_score |-> fall_score]

\* The poses the functions are called with.  The hips are at (90, 200) and
\* (110, 200); the shoulders are 10 pixels left and right of the hips' middle
\* moved by a torso vector (y grows downwards in an image, so << 0, -100 >> is
\* a person standing upright).
TorsoVectors ==
    { << 0, 0 - 100 >>, << 100, 0 - 100 >>, << 100, 0 >>, << 100, 100 >>,
      << 0, 100 >>, << 0 - 100, 0 >>, << 0 - 100, 0 - 100 >> }

Landmarks(v) ==
    << Kp("nose", 100 + v[1], 180 + v[2]),
       Kp("left_shoulder", 90 + v[1], 200 + v[2]),
       Kp("right_shoulder", 110 + v[1], 200 + v[2]),
       Kp("left_hip", 90, 200),
       Kp("right_hip", 110, 200) >>

\* No keypoints, a pose that lacks the right hip, a pose that names the left
\* shoulder twice, and the whole poses.
Skeletons ==
    { << >>,
      SubSeq(Landmarks(<< 100, 0 >>), 1, 4),
      << Kp("left_shoulder", 90, 300) >> \o Landmarks(<< 0, 0 - 100 >>) }
    \cup { Landmarks(v) : v \in TorsoVectors }

Box(x1, y1, x2, y2) ==
    { << Frac(x1, 1), Frac(y1, 1), Frac(x2, 1), Frac(y2, 1) >> }

\* None, the empty list, and boxes of aspect ratio 0.5, 1.4, 1.52, 2, and an
\* empty box (its width and height count as 1).
Boxes ==
    { {}, { << >> }, Box(0, 0, 50, 100), Box(0, 0, 140, 100),
      Box(0, 0, 152, 100), Box(0, 0, 200, 100), Box(10, 10, 10, 10) }

\* PersonPose.score, which schemas.py keeps within [0, 1].
Confidences == { Zero, Frac(3, 10), Half, Frac(8, 10), One }

People == [keypoints : Skeletons, bbox : Boxes, score : Confidences]

\* The people of a frame: those a detector found by their box alone, and one
\* lying across the picture.
Crowd ==
    { p \in People : p.keypoints = << >> /\ p.score \in {Frac(8, 10), One} }
    \cup { [keypoints |-> Landmarks(<< 100, 100 >>), bbox |-> {}, score |-> One] }

MaxPeople == 2

\* The lists of at most n elements of S.
ListsOf(S, n) == UNION { [1..k -> S] : k \in 0..n }

\* A call touches neither the jobs nor the estimator cache.
CalcStep == UNCHANGED << jobVars, estVars, lockVars >>

\* fall_detector.score_person(person)
CallScorePerson ==
    /\ calc = Idle
    /\ \E person \in People :
          calc' = [fn |-> "score_person", person |-> person,
                   score |-> ScorePerson(person)]
    /\ CalcStep

\* fall_detector.predict(people)
CallPredict ==
    /\ calc = Idle
    /\ \E people \in ListsOf(Crowd, MaxPeople) :
          calc' = [fn |-> "predict", people |-> people,
                   verdict |-> Predict(people)]
    /\ CalcStep

\* get_torch_device(preferred) on a machine that answers the three probes
CallGetTorchDevice ==
    /\ calc = Idle
    /\ \E preferred \in Preferences, mps \in BOOLEAN, built_ \in BOOLEAN,
          cuda \in BOOLEAN :
          calc' = [fn |-> "get_torch_device", preferred |-> preferred,
                   mps_available |-> mps, mps_built |-> built_,
                   cuda_available |-> cuda,
                   device_type |-> GetTorchDevice(preferred, mps, built_, cuda)]
    /\ CalcStep

----------------------------------------------------------------------------
\* pose.py: what estimate makes of the raw output of its backend.

\* utils.py: COCO_KEYPOINT_NAMES
CocoKeypointNames ==
    << "nose", "left_eye", "right_eye", "left_ear", "right_ear",
       "left_shoulder", "right_shoulder", "left_elbow", "right_elbow",
       "left_wrist", "right_wrist", "left_hip", "right_hip", "left_knee",
       "right_knee", "left_ankle", "right_ankle" >>

\* schemas.py: Field(ge=0.0, le=1.0)
ValidScore(score) == RLeq(Zero, score) /\ RLeq(score, One)

\* A Keypoint whose score is not validated.
KeypointUnvalidated(x, y, score, name) ==
    { [name |-> name, x |-> x, y |-> y, score |-> score] }

\* Keypoint(x=, y=, score=, name=): the object, or None for the
\* ValidationError that pydantic raises when the score is outside [0, 1].
Keypoint(x, y, score, name) ==
    IF ValidScore(score)
    THEN { [name |-> name, x |-> x, y |-> y, score |-> score] }
    ELSE {}

\* PersonPose(keypoints=, score=, bbox=), validated in the same way.
PersonPose(keypoints, score, bbox) ==
    IF ValidScore(score)
    THEN { [keypoints |-> keypoints, score |-> score, bbox |-> bbox] }
    ELSE {}

\* The raw keypoint scores a backend hands over: logits, probabilities,
\* visibility flags, and values far outside any of these.
RawScores ==
    { Frac(0 - 1000, 1), Frac(0 - 3, 1), Frac(0 - 1, 2), Zero, Frac(3, 10),
      One, Frac(3, 2), Frac(2, 1), Frac(5, 1), Frac(1000, 1) }

\* 1.0 / (1.0 + math.exp(-score)) for the raw scores outside [0, 1], to three
\* decimals.  math.exp(1000) raises OverflowError (None); math.exp(-1000) is
\* 0.0.
Sigmoid(score) ==
    CASE score = Frac(0 - 1000, 1) -> {}
      [] score = Frac(0 - 3, 1) -> { Frac(47, 1000) }
      [] score = Frac(0 - 1, 2) -> { Frac(378, 1000) }
      [] score = Frac(3, 2) -> { Frac(818, 1000) }
      [] score = Frac(2, 1) -> { Frac(881, 1000) }
      [] score = Frac(5, 1) -> { Frac(993, 1000) }
      [] score = Frac(1000, 1) -> { One }

\* PoseEstimator._normalize_kp_score: the score, or None when it raises.
NormalizeKpScore(value, used_scores_tensor) ==
    LET score == value
        normalized ==
            IF used_scores_tensor
            THEN IF RLess(score, Zero) \/ RLess(One, score)
                 THEN Sigmoid(score)
                 ELSE { score }
            ELSE { RMax(Zero, RMin(One, RDiv(score, Frac(2, 1)))) }
    IN  { RMax(Zero, RMin(One, n)) : n \in normalized }

MaxKeypoints == 2

\* What a backend reports of one person: the raw scores of the keypoints, the
\* detection score (Sports2D may leave it out) and the box.
RawPoses ==
    { [keypoints |-> k, score |-> c, bbox |-> Box(0, 0, 50, 100)] :
        k \in ListsOf(RawScores, MaxKeypoints),
        c \in { {}, {Frac(3, 10)}, {Frac(9, 10)}, {Frac(3, 2)} } }

\* The output of a backend for one image: nobody, or one person.
RawOutputs == ListsOf(RawPoses, 1)

\* What estimate returns of the entries its loop has built, one per pose it
\* keeps (the PersonPose, or None if a constructor or the normalization
\* raised): the people, unless something raised.
Returned(entries) ==
    IF \E i \in 1..Len(entries) : entries[i] = {}
    THEN [raised |-> TRUE, people |-> << >>]
    ELSE [raised |-> FALSE,
          people |-> [i \in 1..Len(entries) |-> CHOOSE e \in entries[i] : TRUE]]

\* The keypoints of one pose, or None if one of them cannot be constructed.
Keypoints(kps) ==
    IF \E j \in 1..Len(kps) : kps[j] = {}
    THEN {}
    ELSE { [j \in 1..Len(kps) |-> CHOOSE e \in kps[j] : TRUE] }

\* PoseEstimator._estimate_sports2d
EstimateSports2d(outputs) ==
    LET make(pose) ==
            LET kps == Keypoints(
                    [j \in 1..Len(pose.keypoints) |->
                        Keypoint(Zero, Zero, pose.keypoints[j], {})])
                score == IF pose.score = {} THEN One
                         ELSE CHOOSE c \in pose.score : TRUE
            IN  IF kps = {} THEN {}
                ELSE PersonPose(CHOOSE k \in kps : TRUE, score, pose.bbox)
    IN  Returned([i \in 1..Len(outputs) |-> make(outputs[i])])

\* PoseEstimator._estimate_torchvision: the detections below the threshold of
\* 0.5 are skipped; the model always reports a detection score.
EstimateTorchvision(outputs, used_scores_tensor) ==
    LET Score(pose) == IF pose.score = {} THEN One
                       ELSE CHOOSE c \in pose.score : TRUE
        kept(pose) == ~RLess(Score(pose), Half)
        make(pose) ==
            LET kps == Keypoints(
                    [j \in 1..Len(pose.keypoints) |->
                        LET kp_score == NormalizeKpScore(pose.keypoints[j],
                                                         used_scores_tensor)
                            name == IF j <= Len(CocoKeypointNames)
                                    THEN { CocoKeypointNames[j] } ELSE {}
                        IN  IF kp_score = {} THEN {}
                            ELSE Keypoint(Zero, Zero,
                                          CHOOSE n \in kp_score : TRUE, name)])
            IN  IF kps = {} THEN {}
                ELSE PersonPose(CHOOSE k \in kps : TRUE, Score(pose), pose.bbox)
        keep == SelectSeq(outputs, kept)
    IN  Returned([i \in 1..Len(keep) |-> make(keep[i])])

\* PoseEstimator.estimate
Estimate(backend, outputs, used_scores_tensor) ==
    IF backend = "sports2d" THEN EstimateSports2d(outputs)
    ELSE EstimateTorchvision(outputs, used_scores_tensor)

\* estimator.estimate(image): the backend is the library if it is installed;
\* the detector reports keypoints_scores or only the visibility flags.
CallEstimate ==
    /\ calc = Idle
    /\ \E backend \in {"sports2d", "torchvision"}, outputs \in RawOutputs,
          used_scores_tensor \in BOOLEAN :
          /\ backend = "sports2d" => used_scores_tensor
          /\ calc' = [fn |-> "estimate", backend |-> backend,
                      outputs |-> outputs,
                      used_scores_tensor |-> used_scores_tensor,
                      result |-> Estimate(backend, outputs, used_scores_tensor)]
    /\ CalcStep

----------------------------------------------------------------------------
\* analyze_video (main.py 144-208), the scan of an opened video while the stop
\* event stays unset.  A frame is the list of people estimate finds in it.

\* Nobody; a person whose box has ratio 1.4 (score 0.5), 1.52 (score 0.6) or
\* 2 (score 1).
FrameContents ==
    { << >> }
    \cup { << [keypoints |-> << >>, bbox |-> b, score |-> One] >> :
             b \in { Box(0, 0, 140, 100), Box(0, 0, 152, 100),
                     Box(0, 0, 200, 100) } }

MaxScan == 6

\* Python's sum(scores): from 0, one addition per element.
SumOf(scores) ==
    LET sum[i \in 0..Len(scores)] ==
            IF i = 0 THEN Zero ELSE RAdd(sum[i - 1], scores[i])
    IN  sum[Len(scores)]

\* lines 200-208: the response
VideoAnalyzeResponse(analyzed, fall_frames, scores) ==
    [analyzed_frames |-> analyzed,
     any_fall |-> Len(fall_frames) > 0,
     fall_frames |-> fall_frames,
     average_fall_score |->
         IF scores # << >> THEN RDiv(SumOf(scores), Frac(Len(scores), 1))
         ELSE Zero]

\* lines 167-170: analyzed = 0, fall_frames = [], scores = [], frame_idx = 0
CallAnalyzeVideo ==
    /\ calc = Idle
    /\ \E frames \in ListsOf(FrameContents, MaxScan) :
          calc' = [fn |-> "analyze_video", frames |-> frames, frame_idx |-> 0,
                   analyzed |-> 0, fall_frames |-> << >>, scores |-> << >>,
                   response |-> {}]
    /\ CalcStep

Scanning == calc.fn = "analyze_video" /\ calc.response = {}

\* A pass of the loop that tests the stride before it counts the frame.
ScanFrameTestFirst ==
    /\ Scanning
    /\ calc.frame_idx < Len(calc.frames)
    /\ LET idx == calc.frame_idx + 1
       IN  IF calc.frame_idx % 3 # 0
           THEN calc' = [calc EXCEPT !.frame_idx = idx]
           ELSE \E v \in { Predict(calc.frames[idx]) } :
                    calc' = [calc EXCEPT
                        !.frame_idx = idx,
                        !.analyzed = @ + 1,
                        !.scores = Append(@, v.fall_score),
                        !.fall_frames = IF v.is_fall THEN Append(@, idx) ELSE @]
    /\ CalcStep

\* lines 171-188, one pass of the loop with a frame left: cap.read() is ok,
\* count the frame, skip it unless its index is a multiple of 3, else
\* estimate, predict and record.
ScanFrame ==
    /\ Scanning
    /\ calc.frame_idx < Len(calc.frames)
    /\ LET idx == calc.frame_idx + 1
       IN  IF idx % 3 # 0
           THEN calc' = [calc EXCEPT !.frame_idx = idx]
           ELSE \E v \in { Predict(calc.frames[idx]) } :
                    calc' = [calc EXCEPT
                        !.frame_idx = idx,
                        !.analyzed = @ + 1,
                        !.scores = Append(@, v.fall_score),
                        !.fall_frames = IF v.is_fall THEN Append(@, idx) ELSE @]
    /\ CalcStep

\* lines 172-174 and 190-208: cap.read() is not ok: break, release, respond
ScanEnd ==
    /\ Scanning
    /\ calc.frame_idx >= Len(calc.frames)
    /\ calc' = [calc EXCEPT !.response =
                   { VideoAnalyzeResponse(calc.analyzed, calc.fall_frames,
                                          calc.scores) }]
    /\ CalcStep

\* The call has returned; the next one can begin.
CalcReturn ==
    /\ calc # Idle
    /\ ~Scanning
    /\ calc' = Idle
    /\ CalcStep

NextCalc ==
    \/ CallScorePerson
    \/ CallPredict
    \/ CallGetTorchDevice
    \/ CallEstimate
    \/ CallAnalyzeVideo
    \/ ScanFrame
    \/ ScanEnd
    \/ CalcReturn

\* The functions of fall.py, pose.py and device.py and the synchronous scan,
\* called one at a time with every input of the sets above.
SpecCalc == Init /\ [][NextCalc]_vars

----------------------------------------------------------------------------
\* get_estimator (main.py 101-106).  No lock guards _estimators: a thread can
\* be descheduled between any two statements, and PoseEstimator(...) loads a
\* model, which takes long.  The event loop runs one handler at a time, so it
\* is one thread; each job worker calls get_estimator once (line 330).  What
\* the probes of the hardware answer is an input of each call.

\* A step inside get_estimator touches neither the jobs nor the last call.
EstimatorStep == UNCHANGED << jobVars, calc, lockVars >>

\* line 102: device, device_type = get_torch_device(preferred)
GetEstimatorSelect(t) ==
    /\ gpc[t] = "idle"
    /\ \E preferred \in Preferences, mps \in BOOLEAN, cuda \in BOOLEAN :
          gkind' = [gkind EXCEPT ![t] = GetTorchDevice(preferred, mps, mps, cuda)]
    /\ gpc' = [gpc EXCEPT ![t] = "check"]
    /\ UNCHANGED << estimators, built, handed, gnew >>
    /\ EstimatorStep

\* line 103: if device_type not in _estimators
GetEstimatorCheck(t) ==
    /\ gpc[t] = "check"
    /\ gpc' = [gpc EXCEPT ![t] = IF estimators[gkind[t]] = {} THEN "construct"
                                 ELSE "return"]
    /\ UNCHANGED << estimators, built, handed, gkind, gnew >>
    /\ EstimatorStep

\* line 105, right-hand side: PoseEstimator(preferred_device=device_type)
GetEstimatorConstruct(t) ==
    /\ gpc[t] = "construct"
    /\ built' = [built EXCEPT ![gkind[t]] = @ + 1]
    /\ gnew' = [gnew EXCEPT ![t] = {[kind |-> gkind[t], nr |-> built'[gkind[t]]]}]
    /\ gpc' = [gpc EXCEPT ![t] = "store"]
    /\ UNCHANGED << estimators, handed, gkind >>
    /\ EstimatorStep

\* line 105: the constructor raises (the weights do not load): the call ends
\* with the cache as it was.
GetEstimatorRaise(t) ==
    /\ gpc[t] = "construct"
    /\ gpc' = [gpc EXCEPT ![t] = IF t = Loop THEN "idle" ELSE "ended"]
    /\ UNCHANGED << estimators, built, handed, gkind, gnew >>
    /\ EstimatorStep

\* line 105, the assignment: _estimators[device_type] = <the new instance>
GetEstimatorStore(t) ==
    /\ gpc[t] = "store"
    /\ estimators' = [estimators EXCEPT ![gkind[t]] = gnew[t]]
    /\ gnew' = [gnew EXCEPT ![t] = {}]
    /\ gpc' = [gpc EXCEPT ![t] = "return"]
    /\ UNCHANGED << built, handed, gkind >>
    /\ EstimatorStep

\* line 106: return _estimators[device_type]; a handler returns to the event
\* loop, which then runs the next handler; a worker goes on with its video.
GetEstimatorReturn(t) ==
    /\ gpc[t] = "return"
    /\ handed' = handed \cup estimators[gkind[t]]
    /\ gpc' = [gpc EXCEPT ![t] = IF t = Loop THEN "idle" ELSE "ended"]
    /\ UNCHANGED << estimators, built, gkind, gnew >>
    /\ EstimatorStep

GetEstimator(t) ==
    \/ GetEstimatorSelect(t)
    \/ GetEstimatorCheck(t)
    \/ GetEstimatorConstruct(t)
    \/ GetEstimatorRaise(t)
    \/ GetEstimatorStore(t)
    \/ GetEstimatorReturn(t)

NextEstimators == \E t \in Threads : GetEstimator(t)

\* The estimator cache under the calls of the event loop and the workers.
SpecEstimators == Init /\ [][NextEstimators]_vars

----------------------------------------------------------------------------
\* _JOBS_LOCK (main.py 286): who holds it and where.  Here a step of a thread
\* is one statement or one call, and `with _JOBS_LOCK:` is two steps: the
\* entry, which waits until the lock is free, and the body with the exit.
\* The event loop (thread 0) runs one handler at a time and blocks like any
\* thread when it enters the lock.  Every video has MaxFrames frames.

\* The positions right before a `with _JOBS_LOCK:` and the positions inside.
Inside(at) ==
    CASE at = "start_wait" -> "start_locked"
      [] at = "poll_wait" -> "poll_locked"
      [] at = "fetch_wait" -> "fetch_locked"
      [] at = "update0_wait" -> "update0_locked"
      [] at = "update_wait" -> "update_locked"
      [] at = "stop_wait" -> "stop_locked"
      [] at = "final_wait" -> "final_locked"
      [] at = "finish_wait" -> "finish_locked"
      [] at = "error_wait" -> "error_locked"

WaitPcs ==
    { "start_wait", "poll_wait", "fetch_wait", "update0_wait", "update_wait",
      "stop_wait", "final_wait", "finish_wait", "error_wait" }

LockedPcs == { Inside(at) : at \in WaitPcs }

\* Where a thread goes on after the body of each `with _JOBS_LOCK:`.
After(at) ==
    CASE at = "start_locked" -> "start_thread"
      [] at = "poll_locked" -> "idle"
      [] at = "fetch_locked" -> "fetch_exists"
      [] at = "update0_locked" -> "writer"
      [] at = "update_locked" -> "loop"
      [] at = "stop_locked" -> "remove"
      [] at = "final_locked" -> "finish_wait"
      [] at = "finish_locked" -> "unregister"
      [] at = "error_locked" -> "unregister"

\* A step at the lock touches nothing else but the stop event.
LockStep ==
    UNCHANGED << JOBS, WORKERS, files, pc, video, processed, pending, sd,
                 snapshot, joined, resp, fresh, atStop, sinceStop, estVars,
                 calc >>

Goto(t, at) == lpc' = [lpc EXCEPT ![t] = at]

\* with _JOBS_LOCK: (entry) -- lines 291, 304, 313, 321, 418, 434
LockEnter(t) ==
    /\ lpc[t] \in WaitPcs
    /\ jobsLock = {}
    /\ jobsLock' = {t}
    /\ Goto(t, Inside(lpc[t]))
    /\ UNCHANGED << lprocessed, STOP_EVENT >>
    /\ LockStep

\* the body of a with _JOBS_LOCK: (dictionary reads and writes only) and its
\* exit -- lines 292-299, 305-309, 314-317, 322-325, 419-425, 435-441
LockBody(t) ==
    /\ lpc[t] \in LockedPcs
    /\ jobsLock = {t}
    /\ jobsLock' = {}
    /\ Goto(t, After(lpc[t]))
    /\ UNCHANGED << lprocessed, STOP_EVENT >>
    /\ LockStep

\* A step that touches neither the lock nor a counter nor the stop event.
LockIdle ==
    /\ UNCHANGED << jobsLock, lprocessed, STOP_EVENT >>
    /\ LockStep

\* annotate_video_async up to _start_job_state (lines 389-406), for a job
\* whose worker does not exist yet
LockSubmit ==
    /\ ~STOP_EVENT
    /\ \E j \in JobIds : lpc[j] = "none"
    /\ lpc[Loop] = "idle"
    /\ Goto(Loop, "start_wait")
    /\ LockIdle

\* lines 410-413: create, track and start the worker thread, answer
LockStartThread ==
    /\ lpc[Loop] = "start_thread"
    /\ LET j == CHOOSE k \in JobIds :
                    lpc[k] = "none" /\ \A i \in JobIds : lpc[i] = "none" => k <= i
       IN  lpc' = [lpc EXCEPT ![Loop] = "idle", ![j] = "begin"]
    /\ UNCHANGED << jobsLock, lprocessed, STOP_EVENT >>
    /\ LockStep

\* annotate_progress, line 417
LockPoll ==
    /\ lpc[Loop] = "idle"
    /\ Goto(Loop, "poll_wait")
    /\ LockIdle

\* annotate_result, line 433
LockFetch ==
    /\ lpc[Loop] = "idle"
    /\ Goto(Loop, "fetch_wait")
    /\ LockIdle

\* annotate_result, lines 442-445: os.path.exists and the response
LockFetchExists ==
    /\ lpc[Loop] = "fetch_exists"
    /\ Goto(Loop, "idle")
    /\ LockIdle

\* _annotate_worker, lines 330-341: the estimator, the temp file, the
\* capture; a container that does not open goes to _error_job
LockWorkerBegin(j) ==
    /\ lpc[j] = "begin"
    /\ \E opened \in BOOLEAN :
          Goto(j, IF opened THEN "update0_wait" ELSE "error_wait")
    /\ LockIdle

\* lines 347-354: the output temp file and the writer
LockWorkerWriter(j) ==
    /\ lpc[j] = "writer"
    /\ Goto(j, "loop")
    /\ LockIdle

\* line 355: while not _STOP_EVENT.is_set()
LockWorkerLoop(j) ==
    /\ lpc[j] = "loop"
    /\ Goto(j, IF STOP_EVENT THEN "release" ELSE "decode")
    /\ LockIdle

\* lines 356-358: cap.read() blocks while it decodes; not ok: break
LockWorkerDecode(j) ==
    /\ lpc[j] = "decode"
    /\ Goto(j, IF lprocessed[j] >= MaxFrames THEN "release" ELSE "inference")
    /\ LockIdle

\* A worker that takes the registry lock once the inference is done, to
\* encode, count and publish under it.
LockWorkerInferenceTakesLock(j) ==
    /\ lpc[j] = "inference"
    /\ jobsLock = {}
    /\ jobsLock' = {j}
    /\ Goto(j, "encode")
    /\ UNCHANGED << lprocessed, STOP_EVENT >>
    /\ LockStep

\* lines 359-362: estimator.estimate(image) blocks in the model; draw
LockWorkerInference(j) ==
    /\ lpc[j] = "inference"
    /\ Goto(j, "encode")
    /\ LockIdle

\* lines 363-366: writer.write(frame) blocks while it encodes; processed += 1;
\* on every BatchSize-th frame go to _update_job
LockWorkerEncode(j) ==
    /\ lpc[j] = "encode"
    /\ lprocessed' = [lprocessed EXCEPT ![j] = @ + 1]
    /\ Goto(j, IF lprocessed'[j] % BatchSize = 0 THEN "update_wait" ELSE "loop")
    /\ UNCHANGED << jobsLock, STOP_EVENT >>
    /\ LockStep

\* lines 359-363 raise: the except branch goes to _error_job (line 382)
LockWorkerRaise(j) ==
    /\ lpc[j] \in {"writer", "inference"}
    /\ Goto(j, "error_wait")
    /\ LockIdle

\* lines 367-369: release the capture and the writer; the stop event decides
\* between _error_job("Server stopping") and the final _update_job
LockWorkerRelease(j) ==
    /\ lpc[j] = "release"
    /\ Goto(j, IF STOP_EVENT THEN "stop_wait" ELSE "final_wait")
    /\ LockIdle

\* lines 372-377: os.remove(out_path), return
LockWorkerRemove(j) ==
    /\ lpc[j] = "remove"
    /\ Goto(j, "unregister")
    /\ LockIdle

\* line 384: _unregister_current_worker() (it takes _WORK_LOCK, not this lock)
LockWorkerUnregister(j) ==
    /\ lpc[j] = "unregister"
    /\ Goto(j, "ended")
    /\ lprocessed' = [lprocessed EXCEPT ![j] = 0]
    /\ UNCHANGED << jobsLock, STOP_EVENT >>
    /\ LockStep

\* lifespan, line 38: _STOP_EVENT.set()
LockSetStop ==
    /\ ~STOP_EVENT
    /\ lpc[Loop] = "idle"
    /\ STOP_EVENT' = TRUE
    /\ UNCHANGED << jobsLock, lpc, lprocessed >>
    /\ LockStep

LockWorker(j) ==
    \/ LockWorkerBegin(j)
    \/ LockWorkerWriter(j)
    \/ LockWorkerLoop(j)
    \/ LockWorkerDecode(j)
    \/ LockWorkerInference(j)
    \/ LockWorkerEncode(j)
    \/ LockWorkerRaise(j)
    \/ LockWorkerRelease(j)
    \/ LockWorkerRemove(j)
    \/ LockWorkerUnregister(j)

NextLock ==
    \/ \E t \in Threads : LockEnter(t)
    \/ \E t \in Threads : LockBody(t)
    \/ LockSubmit
    \/ LockStartThread
    \/ LockPoll
    \/ LockFetch
    \/ LockFetchExists
    \/ \E j \in JobIds : LockWorker(j)
    \/ LockSetStop

\* The registry lock under the handlers and the workers.
SpecLock == Init /\ [][NextLock]_vars

----------------------------------------------------------------------------
\* The claims.

Terminal(j) == j \in DOMAIN JOBS /\ JOBS[j].status \in {"done", "error"}

Running(j) == j \in DOMAIN JOBS /\ JOBS[j].status = "running"

\* C1: every job follows running -> {done, error}: a job is created with
\* status running, and once its status is done or error no later step of any
\* operation changes its record (status, processed count, total, error
\* message, output location).
JobStateMachine ==
    [][ /\ \A j \in DOMAIN JOBS' \ DOMAIN JOBS : JOBS'[j].status = "running"
        /\ \A j \in DOMAIN JOBS' :
              JOBS'[j].status \in {"running", "done", "error"}
        /\ \A j \in DOMAIN JOBS :
              Terminal(j) => j \in DOMAIN JOBS' /\ JOBS'[j] = JOBS[j] ]_vars

\* C1 witness: a done job and a cancelled job, after the shutdown, queried.
JobStateMachineWitness ==
    /\ Terminal(1) /\ JOBS[1].status = "done" /\ pc[1] = "exited"
    /\ Terminal(2) /\ JOBS[2].error = {"Server stopping"}
    /\ sd = "done"
    /\ resp.op = "fetch" /\ resp.id = 1

\* C2: once the stop event is set, every job that is running then reaches a
\* terminal status, under fair scheduling of its worker, for any number of
\* jobs and any position of the worker.
StopEndsEveryJob ==
    \A j \in JobIds : (STOP_EVENT /\ Running(j)) ~> Terminal(j)

\* C2 witness: the event is set while two jobs run, one inside its frame loop
\* and one that has not yet opened its container.
StopEndsEveryJobWitness ==
    /\ STOP_EVENT
    /\ Running(1) /\ pc[1] = "frame" /\ processed[1] > 0
    /\ Running(2) /\ pc[2] = "estimator"

\* The jobs whose workers had frames left when the stop event was set.
LeftAtStop == {j \in JobIds : atStop[j] = "left"}

Ended(j) == pc[j] \in {"unregister", "returning", "exited"}

\* C3 as claimed: a worker with frames left when the stop event is set
\* processes at most one further frame, and its job ends with status error
\* and the message "Server stopping", never with done.
StopCancelsWithinOneFrameAsClaimed ==
    \A j \in LeftAtStop :
        /\ sinceStop[j] <= 1
        /\ JOBS[j].status # "done"
        /\ Ended(j) => JOBS[j].status = "error"
        /\ JOBS[j].status = "error" => JOBS[j].error = {"Server stopping"}

\* C3 amended: a worker with frames left when the stop event is set processes
\* at most one further frame, and its job ends with status error, never with
\* done; the message is "Server stopping" unless a call of the worker raises
\* before the worker sees the event, and then it is that failure's text.
StopCancelsWithinOneFrame ==
    \A j \in LeftAtStop :
        /\ sinceStop[j] <= 1
        /\ JOBS[j].status # "done"
        /\ Ended(j) => JOBS[j].status = "error"
        /\ JOBS[j].status = "error" =>
              JOBS[j].error \in {{"Server stopping"}, {Failure}}
        /\ pc[j] \in {"remove"} => JOBS[j].error = {"Server stopping"}

\* C3 witness: a job cancelled after its worker processed one more frame.
StopCancelsWithinOneFrameWitness ==
    \E j \in LeftAtStop :
        /\ sinceStop[j] = 1
        /\ pc[j] = "exited"
        /\ JOBS[j].status = "error" /\ JOBS[j].error = {"Server stopping"}

Unpublished(j) ==
    /\ pc[j] \in {"estimator", "open", "writer", "loop", "frame"}
    /\ processed[j] < BatchSize

ResultCode(id) ==
    CASE id \notin DOMAIN JOBS -> 404
      [] id \in DOMAIN JOBS /\ JOBS[id].status # "done" -> 409
      [] id \in DOMAIN JOBS /\ JOBS[id].status = "done"
           /\ JOBS[id].out_path \cap files = {} -> 410
      [] OTHER -> 200

\* C5: poll or fetch_result of an id not in the registry answers JobNotFound
\* (404); fetch_result of a registered job that is not done answers
\* JobNotReady (409), of a done job whose output file is missing ResultGone
\* (410), and of a done job whose output exists the output.
QueryOutcomes ==
    /\ resp.op = "poll" =>
          resp.code = IF resp.id \in DOMAIN JOBS THEN 200 ELSE 404
    /\ resp.op = "fetch" =>
          /\ resp.code = ResultCode(resp.id)
          /\ resp.code = 200 => resp.file = {resp.id}

\* C5 witness: a result query answered ResultGone.
QueryOutcomesWitness ==
    /\ resp.op = "fetch" /\ resp.code = 410
    /\ JOBS[resp.id].status = "done"

\* C6: once a job is done its output stays in place and every fetch_result
\* of it succeeds, in any interleaving with other jobs, workers, polls and
\* the shutdown.
FetchRepeatable ==
    /\ \A j \in DOMAIN JOBS :
          JOBS[j].status = "done" => JOBS[j].out_path = {j} /\ j \in files
    /\ (resp.op = "fetch" /\ resp.id \in DOMAIN JOBS
          /\ JOBS[resp.id].status = "done") => resp.code = 200

\* C6 witness: a second successful fetch of a done job, after the shutdown
\* that cancelled another job.
FetchRepeatableWitness ==
    /\ resp.op = "fetch" /\ resp.code = 200 /\ resp.again
    /\ sd = "done"
    /\ \E j \in DOMAIN JOBS : JOBS[j].error = {"Server stopping"}

\* processed/total*100 clamped into [0, 100], as the fraction over total.
Clamped(n, t) ==
    << IF 100 * n > 100 * t THEN 100 * t ELSE IF 100 * n < 0 THEN 0 ELSE 100 * n,
       t >>

\* C7: poll answers percent = processed/total*100 clamped into [0, 100]
\* whenever the job's total is known, and null exactly when the total is
\* unknown; percent never exceeds 100.
PollPercent ==
    (resp.op = "poll" /\ resp.code = 200) =>
        /\ resp.percent = {} <=> resp.total = {}
        /\ resp.percent # {} =>
              resp.percent = {Clamped(resp.processed, t) : t \in resp.total}
        /\ \A q \in resp.percent : 0 <= q[1] /\ q[1] <= 100 * q[2]

\* C8: the processed count of a job never decreases, and a poll answers the
\* count the registry holds, so successive polls of a job see non-decreasing
\* counts under any interleaving with the worker's updates.
ProcessedMonotone ==
    [][ /\ \A j \in DOMAIN JOBS :
              j \in DOMAIN JOBS' /\ JOBS'[j].processed >= JOBS[j].processed
        /\ (resp'.op = "poll" /\ resp'.code = 200) =>
              resp'.processed = JOBS'[resp'.id].processed ]_vars

\* C8 witness: a poll of a running job sees a batched update while the other
\* job's worker is in its loop.
ProcessedMonotoneWitness ==
    /\ resp.op = "poll" /\ resp.code = 200
    /\ resp.status = "running" /\ resp.processed = BatchSize
    /\ \E j \in JobIds : j # resp.id /\ pc[j] = "frame"

Range(f) == {f[i] : i \in DOMAIN f}

\* C9 as claimed: the stop event is set before any worker is joined, and at
\* the end of the shutdown every worker thread that was alive when the
\* shutdown began has been joined.
ShutdownJoinsLiveWorkersAsClaimed ==
    /\ joined # {} => STOP_EVENT
    /\ sd = "done" => \A j \in JobIds : atStop[j] # "none" => j \in joined

\* C9 amended: the stop event is set before any worker is joined; the workers
\* joined, each with the bounded timeout, are exactly those still on the
\* tracked list when lifespan copies it right after setting the event; a
\* worker alive at the start of the shutdown that is not joined has taken
\* itself off the list at its end; and the shutdown completes even when a
\* worker never exits.
ShutdownJoinsTrackedWorkers ==
    /\ [](joined # {} => STOP_EVENT)
    /\ [](sd # "serving" => STOP_EVENT)
    /\ [](joined \subseteq Range(snapshot))
    /\ [](sd = "done" => joined = Range(snapshot))
    /\ [](sd \in {"joining", "done"} =>
            \A j \in JobIds :
                (atStop[j] \in {"left", "tracked"} /\ j \notin Range(snapshot))
                    => pc[j] \in {"returning", "exited"})
    /\ (sd # "serving") ~> (sd = "done")

\* C9 witness: the shutdown is complete, two workers were joined and one of
\* them is still in its frame loop.
ShutdownJoinsTrackedWorkersWitness ==
    /\ sd = "done"
    /\ Cardinality(joined) = 2
    /\ \E j \in joined : pc[j] \in {"loop", "frame"}

\* C10: the stop event is one-way: no step clears it; and no job is
\* cancelled ("Server stopping") while the event is not set.
StopOneWay ==
    /\ [][STOP_EVENT => STOP_EVENT']_vars
    /\ [](\A j \in DOMAIN JOBS :
            JOBS[j].error = {"Server stopping"} => STOP_EVENT)

\* C10 witness: after the shutdown, with a job cancelled, a submit is refused.
StopOneWayWitness ==
    /\ STOP_EVENT /\ sd = "done"
    /\ resp.op = "submit" /\ resp.code = 503
    /\ \E j \in DOMAIN JOBS : JOBS[j].error = {"Server stopping"}

\* C11: at most one PoseEstimator instance is ever constructed per device
\* kind, also when handlers and job workers call get_estimator at the same
\* time, and every call for a kind returns the same instance.
OneEstimatorPerKind ==
    \A k \in Kinds :
        /\ built[k] <= 1
        /\ Cardinality({ i \in handed : i.kind = k }) <= 1

\* C12: every failure inside a job worker (estimator construction, container
\* open, decode, inference, drawing, encode) is caught at the worker boundary
\* and leaves the job in status error with a non-null message: a job whose
\* container did not open is in error once the worker is past the open, a
\* recorded failure text goes with status error, and the job of a video with
\* a frame that does not decode never has status done.
FailuresEndInError ==
    \A j \in DOMAIN JOBS :
        /\ JOBS[j].error = {Failure} => JOBS[j].status = "error"
        /\ (video[j] = Unopenable /\ pc[j] \notin {"estimator", "open"})
              => JOBS[j].status = "error" /\ JOBS[j].error # {}
        /\ video[j] \in DamagedVideos => JOBS[j].status # "done"

\* C13: predict returns (false, 0.0) for an empty list of people; for a
\* non-empty list fall_score is the maximum of score_person over the people
\* (the score of one of them, and no one's score is above it), and is_fall is
\* true exactly when fall_score >= 0.6.
PredictIsMaxAndThreshold ==
    calc.fn = "predict" =>
        LET people == calc.people
            v == calc.verdict
        IN  IF people = << >>
            THEN v.is_fall = FALSE /\ v.fall_score = Zero
            ELSE /\ \E i \in 1..Len(people) : v.fall_score = ScorePerson(people[i])
                 /\ \A i \in 1..Len(people) :
                       RLeq(ScorePerson(people[i]), v.fall_score)
                 /\ v.is_fall <=> (10 * v.fall_score[1] >= 6 * v.fall_score[2])

\* C13 witness: two people, the higher score exactly 0.6, a fall.
PredictIsMaxAndThresholdWitness ==
    /\ calc.fn = "predict"
    /\ Len(calc.people) = 2
    /\ ScorePerson(calc.people[1]) = Frac(1, 6)
    /\ ScorePerson(calc.people[2]) = Frac(6, 10)
    /\ calc.verdict = [is_fall |-> TRUE, fall_score |-> Frac(6, 10)]

\* C16: get_torch_device returns a recognized preferred kind (mps, cuda, cpu,
\* in any case and with blanks around it) whatever is available; for any
\* other or absent preference it returns the first available kind in the
\* order mps, cuda, cpu, and cpu when no accelerator is available.
SelectDevice ==
    calc.fn = "get_torch_device" =>
        LET named == { k \in Kinds :
                          \E str \in calc.preferred : StripLower(str) = k }
            mps == calc.mps_available /\ calc.mps_built
        IN  /\ calc.preferred \in {{"mps"}, {"cuda"}, {"cpu"}}
                  => calc.device_type \in calc.preferred
            /\ named # {} => calc.device_type \in named
            /\ named = {} =>
                  /\ calc.device_type = "mps" <=> mps
                  /\ calc.device_type = "cuda" <=> ~mps /\ calc.cuda_available
                  /\ calc.device_type = "cpu" <=> ~mps /\ ~calc.cuda_available

\* C16 witness: an unknown name on a machine with both accelerators: mps.
SelectDeviceWitness ==
    /\ calc.fn = "get_torch_device"
    /\ calc.preferred = {"gpu"}
    /\ calc.mps_available /\ calc.mps_built /\ calc.cuda_available
    /\ calc.device_type = "mps"

\* The two terms of the score in closed form: 0 up to 20 degrees, 1 from 90
\* degrees on, linear between; 0 up to a ratio of 0.8, 1 from 2 on, linear
\* between; a term whose input is absent is 0.
AngleTerm(person) ==
    LET angle == TorsoAngleDeg(person)
    IN  IF angle = {} THEN Zero
        ELSE LET a == CHOOSE e \in angle : TRUE
             IN  IF RLeq(a, Frac(20, 1)) THEN Zero
                 ELSE IF RLeq(Frac(90, 1), a) THEN One
                 ELSE Frac(a[1] - 20 * a[2], 70 * a[2])

AspectTerm(person) ==
    LET ar == AspectRatio(person)
    IN  IF ar = {} THEN Zero
        ELSE LET r == CHOOSE e \in ar : TRUE
             IN  IF RLeq(r, Frac(8, 10)) THEN Zero
                 ELSE IF RLeq(Frac(2, 1), r) THEN One
                 ELSE Frac(5 * r[1] - 4 * r[2], 6 * r[2])

Larger(a, b) == IF RLeq(a, b) THEN b ELSE a

HasTorso(person) ==
    \A name \in {"left_shoulder", "right_shoulder", "left_hip", "right_hip"} :
        \E i \in 1..Len(person.keypoints) : person.keypoints[i].name = {name}

HasBox(person) == \E b \in person.bbox : Len(b) = 4

\* C20: score_person returns a value in [0,1] equal to max(angle_term,
\* aspect_term) * max(0.5, min(1.0, detection_confidence)): it is never below
\* half of the larger term, it is 0 when neither the four torso landmarks nor
\* a bounding box are there, and a term whose inputs are absent does not
\* contribute.
ScorePersonFormula ==
    calc.fn = "score_person" =>
        LET p == calc.person
            larger == Larger(AngleTerm(p), AspectTerm(p))
            damp == IF RLeq(p.score, Half) THEN Half
                    ELSE IF RLeq(One, p.score) THEN One ELSE p.score
        IN  /\ RLeq(Zero, calc.score) /\ RLeq(calc.score, One)
            /\ calc.score = RMul(larger, damp)
            /\ RLeq(RMul(Half, larger), calc.score)
            /\ ~HasTorso(p) /\ ~HasBox(p) => calc.score = Zero
            /\ ~HasTorso(p) => calc.score = RMul(AspectTerm(p), damp)
            /\ ~HasBox(p) => calc.score = RMul(AngleTerm(p), damp)

\* C20 witness: a wide box (term 1), a torso at 45 degrees (term 5/14) and a
\* detection confidence of 0.3: the score is half of the larger term.
ScorePersonFormulaWitness ==
    /\ calc.fn = "score_person"
    /\ AspectTerm(calc.person) = One
    /\ AngleTerm(calc.person) = Frac(25, 70)
    /\ calc.person.score = Frac(3, 10)
    /\ calc.score = Half

\* C14: every Keypoint that estimate produces has 0 <= confidence <= 1, on
\* both normalization paths of the detector backend (scores tensor with
\* logistic squash, visibility flag divided by 2) and on the library backend,
\* for every raw backend score, the out-of-range ones too.
KeypointScoreInRange ==
    calc.fn = "estimate" =>
        \A i \in 1..Len(calc.result.people) :
            \A j \in 1..Len(calc.result.people[i].keypoints) :
                LET score == calc.result.people[i].keypoints[j].score
                IN  RLeq(Zero, score) /\ RLeq(score, One)

\* C14 witness: the detector hands over a logit of 1.5 and a logit of -3 in
\* its scores tensor; the keypoints get 0.818 and 0.047.
KeypointScoreInRangeWitness ==
    /\ calc.fn = "estimate"
    /\ calc.backend = "torchvision" /\ calc.used_scores_tensor
    /\ Len(calc.outputs) = 1
    /\ calc.outputs[1].keypoints = << Frac(3, 2), Frac(0 - 3, 1) >>
    /\ ~calc.result.raised
    /\ Len(calc.result.people) = 1
    /\ calc.result.people[1].keypoints[1].score = Frac(818, 1000)
    /\ calc.result.people[1].keypoints[2].score = Frac(47, 1000)

\* The indices a scan of n frames analyzes: 3, 6, ...
Analyzed(n) == { i \in 1..n : i % 3 = 0 }

RECURSIVE SumOver(_, _)
SumOver(S, f) ==
    IF S = {} THEN Zero
    ELSE LET i == CHOOSE e \in S : TRUE
         IN  RAdd(Predict(f[i]).fall_score, SumOver(S \ {i}, f))

\* C15: a synchronous scan of a video with N decoded frames (no stop signal)
\* analyzes exactly every 3rd decoded frame: analyzed_frames = floor(N/3),
\* fall_frames is the increasing list of exactly the analyzed indices whose
\* verdict is a fall, any_fall is true exactly when fall_frames is non-empty,
\* and average_fall_score is the mean of the analyzed frames' scores (0.0
\* when none was analyzed).
ScanEveryThirdFrame ==
    calc.fn = "analyze_video" /\ calc.response # {} =>
        LET f == calc.frames
            r == CHOOSE e \in calc.response : TRUE
            n == Len(f)
            falls == { i \in Analyzed(n) : Predict(f[i]).is_fall }
        IN  /\ r.analyzed_frames = n \div 3
            /\ r.analyzed_frames = Cardinality(Analyzed(n))
            /\ { r.fall_frames[k] : k \in 1..Len(r.fall_frames) } = falls
            /\ \A k \in 1..(Len(r.fall_frames) - 1) :
                  r.fall_frames[k] < r.fall_frames[k + 1]
            /\ r.any_fall <=> r.fall_frames # << >>
            /\ IF Analyzed(n) = {} THEN r.average_fall_score = Zero
               ELSE RMul(r.average_fall_score, Frac(r.analyzed_frames, 1))
                        = SumOver(Analyzed(n), f)

\* C15 witness: five frames of which the 3rd shows a fall with score 0.6:
\* one frame analyzed, index 3 flagged, mean 0.6.
ScanEveryThirdFrameWitness ==
    /\ calc.fn = "analyze_video"
    /\ Len(calc.frames) = 5
    /\ Predict(calc.frames[1]).is_fall
    /\ Predict(calc.frames[3]).fall_score = Frac(6, 10)
    /\ calc.response = { [analyzed_frames |-> 1, any_fall |-> TRUE,
                          fall_frames |-> << 3 >>,
                          average_fall_score |-> Frac(6, 10)] }

\* The steps that block for long: the decode, the inference, the encode (and
\* the work before the loop and the removal of the file).
BlockingPcs == { "begin", "writer", "decode", "inference", "encode", "remove",
                 "fetch_exists" }

\* C17: no thread holds the registry lock while it is blocked in frame
\* decode, model inference or frame encode: whoever holds the lock is inside
\* a registry read or write, and the next step of the holder releases it, so
\* a poll never waits for the duration of a frame's processing.
LockCoversRegistryOnly ==
    /\ [](\A t \in Threads :
             jobsLock = {t} => lpc[t] \in LockedPcs /\ lpc[t] \notin BlockingPcs)
    /\ [][\A t \in Threads :
             jobsLock = {t} /\ lpc'[t] # lpc[t] => jobsLock' = {}]_vars

\* C17 witness: the poll waits for the lock that worker 1 holds inside
\* _update_job while worker 2 is in the inference.
LockCoversRegistryOnlyWitness ==
    /\ lpc[Loop] = "poll_wait"
    /\ jobsLock = {1} /\ lpc[1] = "update_locked"
    /\ lpc[2] = "inference"

\* C18: a job record is mutated only by its own worker: a poll and a fetch
\* leave the whole registry unchanged, a submit only adds a new record, and
\* the worker of one job never changes the record of another job.
RecordsWrittenByOwner ==
    [][ /\ resp'.op \in {"poll", "fetch"} => JOBS' = JOBS
        /\ \A j \in DOMAIN JOBS :
              /\ j \in DOMAIN JOBS'
              /\ JOBS'[j] # JOBS[j] => pc'[j] # pc[j]
        /\ DOMAIN JOBS' # DOMAIN JOBS =>
              /\ resp'.op = "submit"
              /\ Len(JOBS') = Len(JOBS) + 1
              /\ \A j \in DOMAIN JOBS : JOBS'[j] = JOBS[j]
        /\ \A j \in JobIds :
              pc'[j] # pc[j] =>
                  \A k \in DOMAIN JOBS \ {j} : JOBS'[k] = JOBS[k] ]_vars

\* C18 witness: a poll of job 1, whose worker has published a batch, while
\* job 2 is being worked on and shows nothing yet.
RecordsWrittenByOwnerWitness ==
    /\ resp.op = "poll" /\ resp.id = 1
    /\ Running(1) /\ JOBS[1].processed = BatchSize
    /\ Running(2) /\ JOBS[2].processed = 0 /\ pc[2] = "frame"
    /\ processed[2] > 0

\* C19: in every reachable state each job record is consistent with its
\* status: the output location is set exactly when the status is done, the
\* error message is set exactly when the status is error; a job cancelled by
\* the stop signal never has an output location, so its deleted partial
\* output is never handed out by a fetch.
RecordMatchesStatus ==
    /\ \A j \in DOMAIN JOBS :
          /\ JOBS[j].out_path # {} <=> JOBS[j].status = "done"
          /\ JOBS[j].error # {} <=> JOBS[j].status = "error"
          /\ JOBS[j].error = {"Server stopping"} => JOBS[j].out_path = {}
    /\ resp.op = "fetch" /\ resp.code = 200 =>
          /\ JOBS[resp.id].status = "done"
          /\ JOBS[resp.id].error = {}
          /\ resp.file = JOBS[resp.id].out_path

\* C19 witness: job 1 is done and has its output; job 2 was cancelled by the
\* stop signal, its partial output is removed, and a fetch of it is refused.
RecordMatchesStatusWitness ==
    /\ Terminal(1) /\ JOBS[1].status = "done" /\ JOBS[1].out_path = {1}
    /\ Terminal(2) /\ JOBS[2].error = {"Server stopping"}
    /\ pc[2] = "exited" /\ 2 \notin files
    /\ resp.op = "fetch" /\ resp.id = 2 /\ resp.code = 409

\* The middle of the shoulders and the middle of the hips of a pose that has
\* the four torso landmarks.
ShoulderMid(person) ==
    Center(CHOOSE a \in GetPoint(person, "left_shoulder") : TRUE,
           CHOOSE b \in GetPoint(person, "right_shoulder") : TRUE)

HipMid(person) ==
    Center(CHOOSE a \in GetPoint(person, "left_hip") : TRUE,
           CHOOSE b \in GetPoint(person, "right_hip") : TRUE)

\* The shoulders' middle lies straight above the hips' middle in the picture:
\* same x, smaller y.
Upright(person) ==
    /\ HasTorso(person)
    /\ ShoulderMid(person)[1] = HipMid(person)[1]
    /\ RLess(ShoulderMid(person)[2], HipMid(person)[2])

\* C21: the torso angle is measured from the vertical, 0 degrees = upright and
\* 90 degrees = horizontal: a person without a bounding box whose shoulder
\* midpoint lies directly above the hip midpoint in image coordinates has
\* angle 0 and angle term 0 (score 0); at 90 degrees the score is 1.0 before
\* the confidence scaling.
TorsoAngleFromVertical ==
    calc.fn = "score_person" /\ calc.person.bbox = {} =>
        LET p == calc.person
            damp == RMax(Half, RMin(One, p.score))
        IN  /\ Upright(p) =>
                  /\ TorsoAngleDeg(p) = { Zero }
                  /\ AngleTerm(p) = Zero
                  /\ calc.score = Zero
            /\ TorsoAngleDeg(p) = { Frac(90, 1) } => calc.score = damp

\* A confidence brought into [0, 1].
ClampedToUnit(score) ==
    IF RLess(score, Zero) THEN Zero
    ELSE IF RLess(One, score) THEN One ELSE score

\* C22: on the library backend estimate passes the backend's people through
\* with the confidences clamped to [0, 1]: a raw keypoint or person confidence
\* outside [0, 1] yields a PersonPose with the clamped value, and the call
\* does not fail.
LibraryPathClamps ==
    calc.fn = "estimate" /\ calc.backend = "sports2d" =>
        /\ ~calc.result.raised
        /\ Len(calc.result.people) = Len(calc.outputs)
        /\ \A i \in 1..Len(calc.result.people) :
              LET raw == calc.outputs[i]
                  pose == calc.result.people[i]
              IN  /\ pose.score = IF raw.score = {} THEN One
                                  ELSE ClampedToUnit(CHOOSE c \in raw.score : TRUE)
                  /\ Len(pose.keypoints) = Len(raw.keypoints)
                  /\ \A j \in 1..Len(pose.keypoints) :
                        pose.keypoints[j].score = ClampedToUnit(raw.keypoints[j])

\* C23: the job registry never evicts: once submit has registered a job id,
\* the id stays in the registry in every later state, and a poll never
\* answers 404 for an id that submit returned, whatever the job's status, also
\* after the stop event is set and after the shutdown.
RegistryNeverEvicts ==
    /\ [][\A j \in DOMAIN JOBS : j \in DOMAIN JOBS']_vars
    /\ [](resp.op = "submit" /\ resp.code = 200 => resp.id \in DOMAIN JOBS)
    /\ [](resp.op = "poll" /\ resp.id \in DOMAIN JOBS => resp.code = 200)

\* C23 witness: after the shutdown, with job 1 done and its worker gone and
\* job 2 cancelled, a poll of job 2 is answered with its record.
RegistryNeverEvictsWitness ==
    /\ sd = "done" /\ STOP_EVENT
    /\ Terminal(1) /\ JOBS[1].status = "done" /\ pc[1] = "exited"
    /\ Terminal(2) /\ JOBS[2].status = "error" /\ pc[2] = "exited"
    /\ resp.op = "poll" /\ resp.id = 2 /\ resp.code = 200
    /\ resp.status = "error"

\* C24: when the SIGINT/SIGTERM handler _set_stop_event has been invoked, the
\* stop event is set, so that the running frame loops stop.
SignalSetsStopEvent == sd = "interrupted" => STOP_EVENT

\* C25: no job is accepted after the stop signal: once the stop event is set,
\* no step registers a new job record or starts a new worker thread, however
\* a submit (with its await while it reads the upload) interleaves with the
\* setting of the event.
NoJobAfterStop ==
    [][STOP_EVENT =>
          /\ DOMAIN JOBS' = DOMAIN JOBS
          /\ WORKERS' = WORKERS \/ Len(WORKERS') < Len(WORKERS)
          /\ \A j \in JobIds : pc[j] = "none" => pc'[j] = "none"]_vars

\* The frames worker j has written to its output so far, where the state
\* tells: none before the writer exists, and the local count (line 364, right
\* after writer.write) until its last use.
Written(j) ==
    IF pc[j] \in {"estimator", "open", "writer"} THEN {0}
    ELSE IF pc[j] \in {"loop", "frame", "release", "final"} THEN {processed[j]}
    ELSE {}

PollObserves(status) ==
    resp.op = "poll" /\ resp.code = 200 /\ resp.status = status

\* C26 as claimed: a poll that observes done observes the number of frames
\* the worker decoded and wrote; a poll that observes running observes a
\* multiple of BatchSize that does not exceed the frames written.
ProcessedCountAsClaimed ==
    /\ PollObserves("done") => resp.processed = video[resp.id].frames
    /\ PollObserves("running") =>
          /\ resp.processed % BatchSize = 0
          /\ \A w \in Written(resp.id) : resp.processed <= w

\* C26: whenever a poll observes status done, the count it observes is the
\* number of frames the worker decoded and wrote (the final count is published
\* before the done status); while the job is running the observed count never
\* exceeds the frames written, and it is a multiple of BatchSize unless the
\* worker has published its final count and not yet set done.  Every count
\* the worker publishes is its count of written frames at that moment.
ProcessedCount ==
    /\ [](PollObserves("done") => resp.processed = video[resp.id].frames)
    /\ [](PollObserves("running") =>
             /\ \/ resp.processed % BatchSize = 0
                \/ /\ pc[resp.id] = "finish"
                   /\ resp.processed = video[resp.id].frames
             /\ \A w \in Written(resp.id) : resp.processed <= w)
    /\ [](\A j \in DOMAIN JOBS : pc[j] = "final" => processed[j] = video[j].frames)
    /\ [][\A j \in DOMAIN JOBS :
             JOBS'[j].processed # JOBS[j].processed =>
                 /\ Written(j) # {}
                 /\ JOBS'[j].processed =
                        IF pc[j] = "final" THEN processed[j] ELSE processed'[j]]_vars

\* C26 witness: job 1, of seven frames, has published its final count and is
\* not yet done, and a poll observes running with 7; job 2, of three frames,
\* is done with 3.
ProcessedCountWitness ==
    /\ PollObserves("running") /\ resp.id = 1
    /\ resp.processed = MaxFrames + 2 /\ pc[1] = "finish"
    /\ Terminal(2) /\ JOBS[2].status = "done"
    /\ JOBS[2].processed = MaxFrames - 2

====
